---- MODULE Spec2Model ----
(***************************************************************************)
(* Quote ingestion pipeline: the GPTPromptConfig store and its save()      *)
(* hook, the prompt resolver, the structured extractor and its text        *)
(* normaliser; the price analyzer over the business units' purchase        *)
(* tables, the FredAero index lookups and the quote upload view.           *)
(*                                                                         *)
(* Strings the code inspects character by character (raw text, dates,      *)
(* units of measure) are sequences: raw text is a sequence of code points, *)
(* dates and units are sequences of one-character strings.                 *)
(***************************************************************************)
EXTENDS Integers, Sequences, FiniteSets, TLC

VARIABLES configs, lastOp, proc, seen, ext, txt, pa, st, nz, fred, up

vars == <<configs, lastOp, proc, seen, ext, txt, pa, st, nz, fred, up>>

\* ------------------------------------------------------------------------
\* Bounds of the model
\* ------------------------------------------------------------------------

\* Rows the GPTPromptConfig table may hold.
MaxConfigs == 3

\* Distinct values of the unique name column.
MaxNames == 3

\* ------------------------------------------------------------------------
\* GPTPromptConfig (quotes/models.py)
\* ------------------------------------------------------------------------

\* Default of the user_prompt column, also the resolver's default user prompt.
\* A prompt template is a sequence of tokens; "{x}" is a placeholder.
DefaultUserPrompt == <<"Please extract", "{text_content}">>

DefaultSystemPrompt == <<"You are a precise quote data extractor", "{format_instructions}">>

\* (system_prompt, user_prompt) pairs an administrator enters.
\* The second one names a placeholder the extractor does not supply.
PromptPairs ==
    { <<<<"Return JSON like", "{format_instructions}">>, <<"Quote text:", "{text_content}">>>>,
      <<<<"Follow the schema", "{schema}">>, DefaultUserPrompt>> }

Names == 1..MaxNames

\* A row of the table; its primary key is its position in configs.
GPTPromptConfig ==
    [name : Names, system_prompt : {p[1] : p \in PromptPairs},
     user_prompt : {p[2] : p \in PromptPairs}, is_active : BOOLEAN]

\* An instance in memory: pk = 0 is an unsaved instance (pk None).
Instance(pk, name, pair, active) ==
    [pk |-> pk, name |-> name, system_prompt |-> pair[1], user_prompt |-> pair[2],
     is_active |-> active]

RowOf(inst) ==
    [name |-> inst.name, system_prompt |-> inst.system_prompt,
     user_prompt |-> inst.user_prompt, is_active |-> inst.is_active]

\* The row a saved config with these fields is.
StoredConfig(pair, name, active) == RowOf(Instance(0, name, pair, active))

\* Primary keys of the rows with is_active = True.
ActiveSet(store) == {k \in DOMAIN store : store[k].is_active}

\* exclude(pk=self.pk).update(is_active=False) without its effect.
DeactivateOthersSkipped(store, pk) == store

\* GPTPromptConfig.objects.exclude(pk=self.pk).update(is_active=False);
\* with pk None the exclude keeps every row.
DeactivateOthers(store, pk) ==
    [k \in DOMAIN store |->
        IF k # pk THEN [store[k] EXCEPT !.is_active = FALSE] ELSE store[k]]

\* The unique constraint on name: another row already has it.
NameTaken(store, pk, name) ==
    \E k \in DOMAIN store : k # pk /\ store[k].name = name

\* super().save(): INSERT for an unsaved instance, UPDATE of every column of
\* its own row otherwise; IntegrityError (ok = FALSE) on a duplicate name.
ModelSave(store, inst) ==
    IF NameTaken(store, inst.pk, inst.name)
    THEN [ok |-> FALSE, store |-> store, pk |-> inst.pk]
    ELSE IF inst.pk = 0
         THEN [ok |-> TRUE, store |-> Append(store, RowOf(inst)), pk |-> Len(store) + 1]
         ELSE [ok |-> TRUE, store |-> [store EXCEPT ![inst.pk] = RowOf(inst)],
               pk |-> inst.pk]

\* save() whose update is skipped for an instance that has no pk yet.
SaveConfigSavedOnly(store, inst) ==
    ModelSave(IF inst.is_active /\ inst.pk # 0 THEN DeactivateOthers(store, inst.pk)
              ELSE store, inst)

\* GPTPromptConfig.save(), run to completion with nothing interleaved.  The
\* update and the write are separate autocommitted statements: a failed
\* write leaves the update in place.
SaveConfig(store, inst) ==
    ModelSave(IF inst.is_active THEN DeactivateOthers(store, inst.pk) ELSE store, inst)

\* ------------------------------------------------------------------------
\* Prompt resolution (quotes/services/gpt_extractor/extractor.py)
\* ------------------------------------------------------------------------

DefaultPromptPair == <<DefaultSystemPrompt, DefaultUserPrompt>>

\* What a resolution that raised leaves behind: no pair at all.
NoPair == <<<<>>, <<>>>>

PairOfRow(row) == <<row.system_prompt, row.user_prompt>>

\* A resolver that falls back to the first stored row when none is active.
GetActivePromptConfigFirstRow(store, storeUp) ==
    IF ~storeUp THEN [raised |-> "OperationalError", value |-> NoPair]
    ELSE IF Cardinality(ActiveSet(store)) > 1
         THEN [raised |-> "MultipleObjectsReturned", value |-> NoPair]
         ELSE IF ActiveSet(store) = {}
              THEN [raised |-> "",
                    value |-> IF Len(store) > 0 THEN PairOfRow(store[1])
                              ELSE DefaultPromptPair]
              ELSE [raised |-> "",
                    value |-> PairOfRow(store[CHOOSE k \in ActiveSet(store) : TRUE])]

\* GPTExtractor._get_active_prompt_config: objects.get(is_active=True); only
\* DoesNotExist is handled, any other exception leaves the method.
GetActivePromptConfig(store, storeUp) ==
    IF ~storeUp THEN [raised |-> "OperationalError", value |-> NoPair]
    ELSE IF Cardinality(ActiveSet(store)) > 1
         THEN [raised |-> "MultipleObjectsReturned", value |-> NoPair]
         ELSE IF ActiveSet(store) = {}
              THEN [raised |-> "", value |-> DefaultPromptPair]
              ELSE [raised |-> "",
                    value |-> PairOfRow(store[CHOOSE k \in ActiveSet(store) : TRUE])]

\* ------------------------------------------------------------------------
\* Text normaliser (GPTExtractor._preprocess_text)
\* ------------------------------------------------------------------------

\* Longest raw text, in characters.
MaxTextLen == 5

\* ord(char) < 128
AsciiLimit == 128

\* Code points str.isspace() accepts, the separators of str.split().
PyWhitespace ==
    {9, 10, 11, 12, 13, 28, 29, 30, 31, 32, 133, 160, 5760, 8232, 8233, 8239, 8287, 12288}
        \cup (8192..8202)

IsSpace(c) == c \in PyWhitespace

\* text.split(): the maximal runs of non-whitespace, in order; cur is the run
\* being read.
RECURSIVE SplitWords(_, _)
SplitWords(text, cur) ==
    IF text = <<>>
    THEN IF cur = <<>> THEN <<>> ELSE <<cur>>
    ELSE IF IsSpace(Head(text))
         THEN (IF cur = <<>> THEN <<>> ELSE <<cur>>) \o SplitWords(Tail(text), <<>>)
         ELSE SplitWords(Tail(text), Append(cur, Head(text)))

\* ' '.join(words)
RECURSIVE JoinSpace(_)
JoinSpace(words) ==
    IF words = <<>> THEN <<>>
    ELSE IF Len(words) = 1 THEN words[1]
         ELSE words[1] \o <<32>> \o JoinSpace(Tail(words))

\* ''.join(char for char in text if ord(char) < 128)
KeepAscii(text) == SelectSeq(text, LAMBDA c : c < AsciiLimit)

\* _preprocess_text: whitespace is collapsed first, non-ASCII removed second.
PreprocessText(text) == KeepAscii(JoinSpace(SplitWords(text, <<>>)))

\* The text_content argument: a str (some) or None.
TextOf(chars) == [some |-> TRUE, chars |-> chars]

NoText == [some |-> FALSE, chars |-> <<>>]

\* _preprocess_text inside extract_quote_data: None has no split().
PreprocessStep(text) ==
    IF ~text.some THEN [ok |-> FALSE, value |-> <<>>]
    ELSE [ok |-> TRUE, value |-> PreprocessText(text.chars)]

\* Characters of the raw texts: space, newline, 'a', e-acute, no-break space.
TextChars == {32, 10, 97, 233, 160}

RECURSIVE SeqsUpTo(_, _)
SeqsUpTo(S, n) ==
    IF n = 0 THEN {<<>>}
    ELSE LET shorter == SeqsUpTo(S, n - 1)
         IN shorter \cup {Append(s, c) : s \in {t \in shorter : Len(t) = n - 1}, c \in S}

RawTexts == SeqsUpTo(TextChars, MaxTextLen)

\* ------------------------------------------------------------------------
\* Dates: datetime.strptime(s, '%Y-%m-%d') and strftime('%Y-%m-%d')
\* ------------------------------------------------------------------------

Digits == <<"0", "1", "2", "3", "4", "5", "6", "7", "8", "9">>

IsDigit(c) == \E i \in 1..10 : Digits[i] = c

DigitVal(c) == (CHOOSE i \in 1..10 : Digits[i] = c) - 1

IsLeap(y) == (y % 4 = 0 /\ y % 100 # 0) \/ y % 400 = 0

DaysInMonth(y, m) ==
    IF m = 2 THEN (IF IsLeap(y) THEN 29 ELSE 28)
    ELSE IF m \in {4, 6, 9, 11} THEN 30 ELSE 31

\* Length of the text the %m pattern 1[0-2]|0[1-9]|[1-9] takes at position p,
\* given that '-' has to follow it; 0 when it cannot match.
MonthLen(s, p) ==
    IF /\ Len(s) >= p + 2
       /\ \/ s[p] = "1" /\ s[p + 1] \in {"0", "1", "2"}
          \/ s[p] = "0" /\ IsDigit(s[p + 1]) /\ s[p + 1] # "0"
       /\ s[p + 2] = "-"
    THEN 2
    ELSE IF Len(s) >= p + 1 /\ IsDigit(s[p]) /\ s[p] # "0" /\ s[p + 1] = "-"
         THEN 1
         ELSE 0

\* Length of the text the %d pattern 3[0-1]|[1-2]\d|0[1-9]|[1-9]| [1-9] takes at
\* position p (the first alternative that matches); 0 when none does.
DayLen(s, p) ==
    IF /\ Len(s) >= p + 1
       /\ \/ s[p] = "3" /\ s[p + 1] \in {"0", "1"}
          \/ s[p] \in {"1", "2"} /\ IsDigit(s[p + 1])
          \/ s[p] = "0" /\ IsDigit(s[p + 1]) /\ s[p + 1] # "0"
    THEN 2
    ELSE IF Len(s) >= p /\ IsDigit(s[p]) /\ s[p] # "0"
         THEN 1
         ELSE IF Len(s) >= p + 1 /\ s[p] = " " /\ IsDigit(s[p + 1]) /\ s[p + 1] # "0"
              THEN 2
              ELSE 0

\* Value of the digits of s in positions p..q, blanks skipped.
RECURSIVE NumberAt(_, _, _)
NumberAt(s, p, q) ==
    IF q < p THEN 0
    ELSE IF IsDigit(s[q]) THEN NumberAt(s, p, q - 1) * 10 + DigitVal(s[q])
         ELSE NumberAt(s, p, q - 1)

\* datetime.strptime(s, '%Y-%m-%d'): ok = FALSE is ValueError (no match,
\* unconverted data, year 0, a day the month does not have).
Strptime(s) ==
    LET bad == [ok |-> FALSE, y |-> 0, m |-> 0, d |-> 0]
    IN IF ~(Len(s) >= 5 /\ (\A i \in 1..4 : IsDigit(s[i])) /\ s[5] = "-")
       THEN bad
       ELSE LET ml == MonthLen(s, 6)
                dp == 6 + ml + 1
                dl == DayLen(s, dp)
                y  == NumberAt(s, 1, 4)
                m  == NumberAt(s, 6, 5 + ml)
                d  == NumberAt(s, dp, dp + dl - 1)
            IN IF ml = 0 \/ dl = 0 \/ dp + dl - 1 # Len(s) THEN bad
               ELSE IF y < 1 \/ d > DaysInMonth(y, m) THEN bad
                    ELSE [ok |-> TRUE, y |-> y, m |-> m, d |-> d]

\* Decimal digits of n without padding.
RECURSIVE IntChars(_)
IntChars(n) ==
    IF n < 10 THEN <<Digits[n + 1]>>
    ELSE Append(IntChars(n \div 10), Digits[(n % 10) + 1])

TwoDigits(n) == <<Digits[(n \div 10) + 1], Digits[(n % 10) + 1]>>

\* strftime('%Y-%m-%d'): %m and %d are zero-padded; the C library's %Y is
\* not (glibc prints the year 99 as "99").
Strftime(date) ==
    IntChars(date.y) \o <<"-">> \o TwoDigits(date.m) \o <<"-">> \o TwoDigits(date.d)

\* A value of the model's output or of a QuoteData field: None, a number, a
\* string, a field the output leaves out, or a value of a type the schema
\* rejects.
NoneV == [t |-> "none", n |-> 0, s |-> <<>>]

Missing == [t |-> "missing", n |-> 0, s |-> <<>>]

BadValue == [t |-> "bad", n |-> 0, s |-> <<>>]

Num(x) == [t |-> "num", n |-> x, s |-> <<>>]

Str(chars) == [t |-> "str", n |-> 0, s |-> chars]

\* Python truth value of an Optional[str].
Truthy(v) == v.t = "str" /\ v.s # <<>>

\* GPTExtractor._validate_date
ValidateDate(date_str, today) ==
    IF ~Truthy(date_str) THEN NoneV
    ELSE LET parsed == Strptime(date_str.s)
         IN IF parsed.ok THEN Str(Strftime(parsed)) ELSE Str(Strftime(today))

\* ------------------------------------------------------------------------
\* Units of measure: str.upper() and str.strip()
\* ------------------------------------------------------------------------

LowerCase == <<"a", "b", "e", "f", "l", "s", "t">>

UpperCase == <<"A", "B", "E", "F", "L", "S", "T">>

UpperChar(c) ==
    IF \E i \in 1..Len(LowerCase) : LowerCase[i] = c
    THEN UpperCase[CHOOSE i \in 1..Len(LowerCase) : LowerCase[i] = c]
    ELSE c

Upper(s) == [i \in 1..Len(s) |-> UpperChar(s[i])]

IsBlank(c) == c \in {" ", "\t", "\n"}

RECURSIVE LStrip(_)
LStrip(s) == IF s # <<>> /\ IsBlank(Head(s)) THEN LStrip(Tail(s)) ELSE s

RECURSIVE RStrip(_)
RStrip(s) ==
    IF s # <<>> /\ IsBlank(s[Len(s)]) THEN RStrip(SubSeq(s, 1, Len(s) - 1)) ELSE s

Strip(s) == LStrip(RStrip(s))

\* abs() that leaves its argument as it is.
AbsKeepsSign(x) == x

\* abs()
Abs(x) == IF x < 0 THEN 0 - x ELSE x

\* ------------------------------------------------------------------------
\* Structured extractor (GPTExtractor.extract_quote_data)
\* ------------------------------------------------------------------------

\* Keyword arguments extract_quote_data passes to format_messages.
SuppliedKeys == {"{format_instructions}", "{text_content}"}

Placeholders == SuppliedKeys \cup {"{schema}"}

\* One template with its placeholders filled in; lit is a literal token or
\* the name of the placeholder, text the cleaned text put in its place.
FormatTemplate(template, cleaned) ==
    [i \in 1..Len(template) |->
        [lit |-> template[i],
         text |-> IF template[i] = "{text_content}" THEN cleaned ELSE <<>>]]

\* ChatPromptTemplate.from_messages(...).format_messages(...): KeyError
\* (ok = FALSE) when a template names a placeholder that is not supplied.
FormatMessages(pair, cleaned) ==
    IF \E k \in 1..2 : \E i \in 1..Len(pair[k]) :
           pair[k][i] \in Placeholders \ SuppliedKeys
    THEN [ok |-> FALSE, value |-> <<>>]
    ELSE [ok |-> TRUE,
          value |-> <<[role |-> "system", parts |-> FormatTemplate(pair[1], cleaned)],
                      [role |-> "user", parts |-> FormatTemplate(pair[2], cleaned)]>>]

\* Optional[str] field of the schema.
ParseStr(v) ==
    IF v.t \in {"missing", "none"} THEN [ok |-> TRUE, value |-> NoneV]
    ELSE IF v.t = "str" THEN [ok |-> TRUE, value |-> v]
         ELSE [ok |-> FALSE, value |-> NoneV]

\* Optional[float] field of the schema.
ParseNum(v) ==
    IF v.t \in {"missing", "none"} THEN [ok |-> TRUE, value |-> NoneV]
    ELSE IF v.t = "num" THEN [ok |-> TRUE, value |-> v]
         ELSE [ok |-> FALSE, value |-> NoneV]

\* unit_of_measure: Optional[str] = Field("EA"): the default fills a field
\* that is left out, an explicit null stays None.
ParseUom(v) ==
    IF v.t = "missing" THEN [ok |-> TRUE, value |-> Str(<<"E", "A">>)]
    ELSE ParseStr(v)

\* QuoteItem(**fields)
ParseItem(it) ==
    [ok |-> /\ ParseStr(it.item_number).ok /\ ParseStr(it.description).ok
            /\ ParseNum(it.quantity).ok /\ ParseNum(it.unit_price).ok
            /\ ParseUom(it.unit_of_measure).ok,
     value |-> [item_number |-> ParseStr(it.item_number).value,
                description |-> ParseStr(it.description).value,
                quantity |-> ParseNum(it.quantity).value,
                unit_price |-> ParseNum(it.unit_price).value,
                unit_of_measure |-> ParseUom(it.unit_of_measure).value]]

EmptyQuoteData ==
    [supplier_name |-> NoneV, quote_number |-> NoneV, quote_date |-> NoneV, items |-> <<>>]

\* self.parser.parse(response.content): OutputParserException (ok = FALSE)
\* when the text is not JSON or does not fit the QuoteData schema.
ParserParse(content) ==
    IF /\ content.json
       /\ content.itemsOk
       /\ ParseStr(content.supplier_name).ok
       /\ ParseStr(content.quote_number).ok
       /\ ParseStr(content.quote_date).ok
       /\ \A i \in 1..Len(content.items) : ParseItem(content.items[i]).ok
    THEN [ok |-> TRUE,
          value |-> [supplier_name |-> ParseStr(content.supplier_name).value,
                     quote_number |-> ParseStr(content.quote_number).value,
                     quote_date |-> ParseStr(content.quote_date).value,
                     items |-> [i \in 1..Len(content.items) |->
                                   ParseItem(content.items[i]).value]]]
    ELSE [ok |-> FALSE, value |-> EmptyQuoteData]

\* The body of the loop of _validate_quote_data.
ValidateItem(item) ==
    [item EXCEPT
        !.quantity = IF item.quantity.t # "none" THEN Num(Abs(item.quantity.n))
                     ELSE item.quantity,
        !.unit_price = IF item.unit_price.t # "none" THEN Num(Abs(item.unit_price.n))
                       ELSE item.unit_price,
        !.unit_of_measure = IF Truthy(item.unit_of_measure)
                            THEN Str(Strip(Upper(item.unit_of_measure.s)))
                            ELSE Str(<<"E", "A">>)]

\* GPTExtractor._validate_quote_data
ValidateQuoteData(quote_data, today) ==
    [quote_data EXCEPT
        !.quote_date = IF Truthy(quote_data.quote_date)
                       THEN ValidateDate(quote_data.quote_date, today)
                       ELSE quote_data.quote_date,
        !.items = [i \in 1..Len(quote_data.items) |-> ValidateItem(quote_data.items[i])]]

\* The QuoteData the except clause builds.
FallbackQuoteData(today) ==
    [supplier_name |-> NoneV, quote_number |-> NoneV,
     quote_date |-> Str(Strftime(today)), items |-> <<>>]

\* An except clause that handles the parser's exception only.
HandleExceptionParserOnly(step, today) ==
    [raised |-> step # "parse", failed |-> step, value |-> FallbackQuoteData(today)]

\* except Exception: whatever step raised, the fallback is returned.
HandleException(step, today) ==
    [raised |-> FALSE, failed |-> step, value |-> FallbackQuoteData(today)]

\* GPTExtractor.extract_quote_data; llm is what self.llm.invoke does with the
\* prompt (raises, or answers with content), today the date datetime.now()
\* reads.
ExtractQuoteData(text, store, storeUp, llm, today) ==
    LET cleaned   == PreprocessStep(text)
        prompt    == GetActivePromptConfig(store, storeUp)
        formatted == FormatMessages(prompt.value, cleaned.value)
        parsed    == ParserParse(llm.content)
    IN IF ~cleaned.ok THEN HandleException("preprocess", today)
       ELSE IF prompt.raised # "" THEN HandleException("resolve", today)
       ELSE IF ~formatted.ok THEN HandleException("format", today)
       ELSE IF llm.raised THEN HandleException("invoke", today)
       ELSE IF ~parsed.ok THEN HandleException("parse", today)
       ELSE [raised |-> FALSE, failed |-> "none",
             value |-> ValidateQuoteData(parsed.value, today)]

\* ------------------------------------------------------------------------
\* Inputs of the extractor
\* ------------------------------------------------------------------------

\* Largest magnitude of a quantity or a unit price in the model's output.
MaxNum == 1

\* Values datetime.now() takes, as dates.
Clock == {[y |-> 2026, m |-> 10, d |-> 30], [y |-> 2024, m |-> 3, d |-> 7]}

Texts == {NoText, TextOf(<<>>), TextOf(<<97, 32, 233, 32, 97>>)}

\* quote_date values of the model's output.
DateValues ==
    { Missing, NoneV, Str(<<>>),
      Str(<<"2", "0", "2", "4", "-", "0", "3", "-", "0", "7">>),
      Str(<<"2", "0", "2", "4", "-", "3", "-", "7">>),
      Str(<<"2", "0", "2", "4", "-", "0", "2", "-", "3", "0">>),
      Str(<<"0", "3", "/", "0", "7", "/", "2", "0", "2", "4">>),
      Str(<<"2", "0", "2", "4", "-", "0", "3", "-", "0", "7", " ">>),
      Str(<<"0", "0", "9", "9", "-", "0", "1", "-", "0", "1">>),
      Str(<<"M", "a", "r", " ", "7">>) }

\* unit_of_measure values of the model's output.
UomValues ==
    { Missing, NoneV, Str(<<>>), Str(<<" ">>), Str(<<" ", "\t">>),
      Str(<<"e", "a">>), Str(<<"E", "A">>), Str(<<" ", "f", "t", " ">>),
      Str(<<"L", "b", "s">>) }

NumValues == {NoneV, BadValue} \cup {Num(x) : x \in (0 - MaxNum)..MaxNum}

ItemValues ==
    [item_number : {Str(<<"P", "N", "-", "1">>)}, description : {Missing},
     quantity : NumValues, unit_price : NumValues, unit_of_measure : UomValues]

PlainItem ==
    [item_number |-> NoneV, description |-> Str(<<"b", "o", "l", "t">>),
     quantity |-> Num(1), unit_price |-> Num(1), unit_of_measure |-> Missing]

\* The items lists of the model's output: none, one item, two items.
ItemLists == {<<>>} \cup {<<it>> : it \in ItemValues} \cup {<<PlainItem, it>> : it \in ItemValues}

\* What the model answers: text that is no JSON, an object whose items are
\* no list, or an object with any of the field values above.
Garbage ==
    [json |-> FALSE, itemsOk |-> FALSE, supplier_name |-> Missing,
     quote_number |-> Missing, quote_date |-> Missing, items |-> <<>>]

Contents ==
    {Garbage}
    \cup [json : {TRUE}, itemsOk : {TRUE}, supplier_name : {NoneV, Str(<<"A", "c", "m", "e">>)},
          quote_number : {Str(<<"Q", "-", "1">>)}, quote_date : DateValues, items : ItemLists]
    \cup [json : {TRUE}, itemsOk : {FALSE}, supplier_name : {Str(<<"A", "c", "m", "e">>)},
          quote_number : {Str(<<"Q", "-", "1">>)}, quote_date : {Missing}, items : {<<>>}]

\* A well-formed answer with one item whose quantity is negative.
PlainContent ==
    [json |-> TRUE, itemsOk |-> TRUE, supplier_name |-> Str(<<"A", "c", "m", "e">>),
     quote_number |-> Str(<<"Q", "-", "1">>),
     quote_date |-> Str(<<"2", "0", "2", "4", "-", "0", "3", "-", "0", "7">>),
     items |-> <<[PlainItem EXCEPT !.quantity = Num(0 - 1)]>>]

LlmRaises == [raised |-> TRUE, content |-> Garbage]

Answer(content) == [raised |-> FALSE, content |-> content]

\* The environment of a call: every answer of the model when the text and the
\* store are in order, and a few answers for every text and store condition.
ExtractInputs ==
    [text : {TextOf(<<97, 32, 233, 32, 97>>)}, storeUp : {TRUE},
     llm : {Answer(c) : c \in Contents}, today : Clock]
    \cup [text : Texts, storeUp : BOOLEAN,
          llm : {LlmRaises, Answer(Garbage), Answer(PlainContent)}, today : Clock]

\* ------------------------------------------------------------------------
\* Price analyzer (quotes/services/price_analyzer/analyzer.py)
\*
\* Instants are whole seconds; a DataFrame is the sequence of its rows;
\* floating-point prices and their quotients are exact rationals.
\* ------------------------------------------------------------------------

\* PriceAnalyzer.business_units, in enumeration order.
BusinessUnits == <<"business_unit_a", "business_unit_b", "business_unit_c">>

UnitSet == {BusinessUnits[i] : i \in 1..Len(BusinessUnits)}

SecondsPerDay == 86400

\* timedelta(days=n)
Days(n) == n * SecondsPerDay

\* Default of lookback_days.
LookbackDays == 365

\* The window of the recent observations, and the far end of the previous one.
RecentDays == 90

PreviousDays == 180

\* The first reading of the clock in a call.
ClockStart == Days(LookbackDays + PreviousDays)

\* Seconds the clock may advance while a call runs.
MaxAdvance == 1

ClockReadings == ClockStart..(ClockStart + MaxAdvance)

\* The successive readings of datetime.now() within one call: n of them,
\* none earlier than the one before.
ClockReads(n) ==
    {r \in [1..n -> ClockReadings] : \A i \in 1..(n - 1) : r[i] <= r[i + 1]}

\* Orderings of 1..n.
Orderings(n) ==
    {p \in [1..n -> 1..n] : \A i \in 1..n : \A j \in 1..n : i # j => p[i] # p[j]}

\* WHERE item_number = %s AND purchase_date >= %s over a unit's table.
MatchingPurchases(table, item_number, cutoff_date) ==
    LET Match(r) == r.item_number = item_number /\ r.purchase_date >= cutoff_date
    IN SelectSeq(table, Match)

\* ORDER BY purchase_date DESC: every ordering of the rows in which no row
\* precedes one of a later date; rows of equal date come in any order.
OrderByDateDesc(rows) ==
    {[i \in 1..Len(rows) |-> rows[p[i]]] :
        p \in {q \in Orderings(Len(rows)) :
                 \A i \in 1..(Len(rows) - 1) :
                     rows[q[i]].purchase_date >= rows[q[i + 1]].purchase_date}}

\* The (price, purchase_date) rows cursor.fetchall() may return for a unit.
QueryResults(table, item_number, cutoff_date) ==
    {[i \in 1..Len(s) |-> [price |-> s[i].price, purchase_date |-> s[i].purchase_date]] :
        s \in OrderByDateDesc(MatchingPurchases(table, item_number, cutoff_date))}

\* A unit's frame tagged with the first unit whatever its source.
UnitFrameFirstUnit(unit, rows) ==
    [i \in 1..Len(rows) |->
        [business_unit |-> BusinessUnits[1], price |-> rows[i].price,
         purchase_date |-> rows[i].purchase_date]]

\* pd.DataFrame(rows, columns=['price', 'purchase_date']) with the
\* business_unit column set to the unit.
UnitFrame(unit, rows) ==
    [i \in 1..Len(rows) |->
        [business_unit |-> unit, price |-> rows[i].price,
         purchase_date |-> rows[i].purchase_date]]

\* The loop over business_units from unit i on: a unit whose connection or
\* query raises ends the call with that exception; otherwise its frame is
\* appended to all_data.  returned[u] is what unit u's cursor returns.
RECURSIVE FetchLoop(_, _, _, _)
FetchLoop(i, all_data, returned, down) ==
    IF i > Len(BusinessUnits)
    THEN [raised |-> FALSE, data |-> all_data, failed_sources |-> {}]
    ELSE IF BusinessUnits[i] \in down
         THEN [raised |-> TRUE, data |-> <<>>, failed_sources |-> {}]
         ELSE FetchLoop(i + 1, all_data \o UnitFrame(BusinessUnits[i], returned[BusinessUnits[i]]),
                        returned, down)

\* PriceAnalyzer.fetch_historical_prices: pd.concat(all_data,
\* ignore_index=True) lays the frames end to end.  Its return value is the
\* frame alone: no failed source is ever named in it.
FetchHistoricalPrices(returned, down) == FetchLoop(1, <<>>, returned, down)

\* Rationals n/d in lowest terms with a positive denominator.
RECURSIVE Gcd(_, _)
Gcd(a, b) == IF b = 0 THEN a ELSE Gcd(b, a % b)

Q(n, d) ==
    LET g == Gcd(Abs(n), Abs(d))
        s == IF d < 0 THEN 0 - 1 ELSE 1
    IN [num |-> (s * n) \div g, den |-> (s * d) \div g]

QSub(a, b) == Q(a.num * b.den - b.num * a.den, a.den * b.den)

QMul(a, b) == Q(a.num * b.num, a.den * b.den)

QDiv(a, b) == Q(a.num * b.den, a.den * b.num)

\* A statistic: None, a finite float, the square root of a rational, or one
\* of the non-finite floats.
StatNone == [t |-> "none", num |-> 0, den |-> 1]

Float(q) == [t |-> "float", num |-> q.num, den |-> q.den]

NonFinite(kind) == [t |-> kind, num |-> 0, den |-> 1]

RECURSIVE SumPrices(_)
SumPrices(data) == IF data = <<>> THEN 0 ELSE Head(data).price + SumPrices(Tail(data))

RECURSIVE SumSquares(_)
SumSquares(data) ==
    IF data = <<>> THEN 0 ELSE Head(data).price * Head(data).price + SumSquares(Tail(data))

\* Series.mean() of the price column of a non-empty frame.
Mean(data) == Q(SumPrices(data), Len(data))

\* Series.min() and Series.max() of the price column.
MinPrice(data) == CHOOSE x \in {data[i].price : i \in 1..Len(data)} :
                      \A i \in 1..Len(data) : x <= data[i].price

MaxPrice(data) == CHOOSE x \in {data[i].price : i \in 1..Len(data)} :
                      \A i \in 1..Len(data) : x >= data[i].price

\* Series.std(): the sample standard deviation, NaN for a single observation.
Std(data) ==
    IF Len(data) < 2 THEN NonFinite("nan")
    ELSE LET v == Q(Len(data) * SumSquares(data) - SumPrices(data) * SumPrices(data),
                    Len(data) * (Len(data) - 1))
         IN [t |-> "sqrt", num |-> v.num, den |-> v.den]

\* (recent_avg - previous_avg) / previous_avg * 100 on numpy floats: a zero
\* divisor gives an infinity or NaN, not an exception.
TrendOf(recent_avg, previous_avg) ==
    IF previous_avg.num = 0
    THEN (IF recent_avg.num > 0 THEN NonFinite("inf")
          ELSE IF recent_avg.num < 0 THEN NonFinite("-inf") ELSE NonFinite("nan"))
    ELSE Float(QMul(QDiv(QSub(recent_avg, previous_avg), previous_avg), Q(100, 1)))

\* data[data['purchase_date'] >= now - timedelta(days=90)]
RecentData(data, now) ==
    LET Keep(r) == r.purchase_date >= now - Days(RecentDays)
    IN SelectSeq(data, Keep)

\* data[(purchase_date < now - 90 days) & (purchase_date >= now - 180 days)],
\* each bound computed from its own reading of the clock.
PreviousData(data, now90, now180) ==
    LET Keep(r) == /\ r.purchase_date < now90 - Days(RecentDays)
                   /\ r.purchase_date >= now180 - Days(PreviousDays)
    IN SelectSeq(data, Keep)

\* The statistics of an empty frame.
EmptyStatistics ==
    [min_price |-> StatNone, max_price |-> StatNone, avg_price |-> StatNone,
     price_volatility |-> StatNone, recent_trend |-> StatNone]

\* PriceAnalyzer.calculate_price_statistics; reads are the three readings of
\* datetime.now() in the order the comparisons are evaluated.
CalculatePriceStatistics(data, reads) ==
    IF data = <<>> THEN EmptyStatistics
    ELSE LET recent_data == RecentData(data, reads[1])
             previous_data == PreviousData(data, reads[2], reads[3])
         IN [min_price |-> Float(Q(MinPrice(data), 1)),
             max_price |-> Float(Q(MaxPrice(data), 1)),
             avg_price |-> Float(Mean(data)),
             price_volatility |-> Std(data),
             recent_trend |->
                 IF recent_data # <<>> /\ previous_data # <<>>
                 THEN TrendOf(Mean(recent_data), Mean(previous_data))
                 ELSE StatNone]

\* A series normalised against its last value.
NormalizeSeriesToLast(data) ==
    IF data = <<>> THEN <<>>
    ELSE IF data[Len(data)] = 0 THEN [i \in 1..Len(data) |-> Q(0, 1)]
    ELSE [i \in 1..Len(data) |->
             QMul(QDiv(Q(data[i] - data[Len(data)], 1), Q(data[Len(data)], 1)), Q(100, 1))]

\* PriceAnalyzer._normalize_series: percentage change from the first value.
NormalizeSeries(data) ==
    IF data = <<>> THEN <<>>
    ELSE LET first_value == data[1]
         IN IF first_value = 0 THEN [i \in 1..Len(data) |-> Q(0, 1)]
            ELSE [i \in 1..Len(data) |->
                     QMul(QDiv(QSub(Q(data[i], 1), Q(first_value, 1)), Q(first_value, 1)),
                          Q(100, 1))]

\* The path of a saved plot, and the absence of one.
PlotPath(item_number) == [some |-> TRUE, item_number |-> item_number]

NoPlot == [some |-> FALSE, item_number |-> ""]

\* PriceAnalyzer.generate_price_trend_plot: None for an empty frame,
\* otherwise the path of the figure it saved; the index lookup and the
\* rendering may raise (plotOk = FALSE).
GeneratePriceTrendPlot(data, item_number, plotOk) ==
    IF data = <<>> THEN [raised |-> FALSE, plot_path |-> NoPlot]
    ELSE IF ~plotOk THEN [raised |-> TRUE, plot_path |-> NoPlot]
    ELSE [raised |-> FALSE, plot_path |-> PlotPath(item_number)]

AnalysisRaised ==
    [raised |-> TRUE, has_data |-> FALSE, plot_path |-> NoPlot, statistics |-> EmptyStatistics]

\* An analysis that takes the path of a non-empty frame whatever was fetched.
AnalyzeItemPricesNoEmptyCase(fetch, item_number, plotOk, reads) ==
    IF fetch.raised \/ GeneratePriceTrendPlot(fetch.data, item_number, plotOk).raised
    THEN AnalysisRaised
    ELSE [raised |-> FALSE, has_data |-> TRUE,
          plot_path |-> GeneratePriceTrendPlot(fetch.data, item_number, plotOk).plot_path,
          statistics |-> CalculatePriceStatistics(fetch.data, reads)]

\* PriceAnalyzer.analyze_item_prices on the outcome of its fetch.
AnalyzeItemPrices(fetch, item_number, plotOk, reads) ==
    IF fetch.raised THEN AnalysisRaised
    ELSE IF fetch.data = <<>>
         THEN [raised |-> FALSE, has_data |-> FALSE, plot_path |-> NoPlot,
               statistics |-> CalculatePriceStatistics(fetch.data, reads)]
         ELSE IF GeneratePriceTrendPlot(fetch.data, item_number, plotOk).raised
              THEN AnalysisRaised
              ELSE [raised |-> FALSE, has_data |-> TRUE,
                    plot_path |-> GeneratePriceTrendPlot(fetch.data, item_number, plotOk).plot_path,
                    statistics |-> CalculatePriceStatistics(fetch.data, reads)]

\* ------------------------------------------------------------------------
\* FredAero index lookups (quotes/models.py)
\* ------------------------------------------------------------------------

\* A calendar date is [y, m, d]; NoDate is NULL in the observation_date
\* column and None as an argument.
NoDate == [y |-> 0, m |-> 0, d |-> 0]

\* a <= b on dates.
DateLE(a, b) ==
    \/ a.y < b.y
    \/ a.y = b.y /\ a.m < b.m
    \/ a.y = b.y /\ a.m = b.m /\ a.d <= b.d

\* FredAero._get_first_of_month
FirstOfMonth(date) == [y |-> date.y, m |-> date.m, d |-> 1]

\* filter(observation_date__lte=bound): the primary keys of the rows on or
\* before the bound; a NULL date satisfies no comparison.
ObservedOnOrBefore(store, bound) ==
    {k \in DOMAIN store :
        store[k].observation_date # NoDate /\ DateLE(store[k].observation_date, bound)}

\* The latest rows among a set of primary keys: what
\* order_by('-observation_date').first() may return, or 0 for None.
LatestOf(store, keys) ==
    IF keys = {} THEN {0}
    ELSE {k \in keys :
            \A j \in keys : DateLE(store[j].observation_date, store[k].observation_date)}

\* A lookup bounded by the target date itself.
GetIndexForDateExact(store, target_date) ==
    LatestOf(store, ObservedOnOrBefore(store, target_date))

\* FredAero.get_index_for_date: the primary keys it may return.
GetIndexForDate(store, target_date) ==
    LatestOf(store, ObservedOnOrBefore(store, FirstOfMonth(target_date)))

\* order_by('observation_date') over a set of primary keys: every listing
\* of them in which no row precedes one of an earlier date.
OrderByDateAsc(store, keys) ==
    {[i \in 1..Cardinality(keys) |-> f[i]] :
        f \in {g \in [1..Cardinality(keys) -> keys] :
                 /\ \A i \in 1..Cardinality(keys) : \A j \in 1..Cardinality(keys) :
                        i # j => g[i] # g[j]
                 /\ \A i \in 1..(Cardinality(keys) - 1) :
                        DateLE(store[g[i]].observation_date, store[g[i + 1]].observation_date)}}

\* filter(observation_date__gte=lo, observation_date__lte=hi)
ObservedBetween(store, lo, hi) ==
    {k \in DOMAIN store :
        /\ store[k].observation_date # NoDate
        /\ DateLE(lo, store[k].observation_date)
        /\ DateLE(store[k].observation_date, hi)}

\* A range lookup bounded by the dates as given.
GetIndexRangeForAnalysisExact(store, start_date, end_date, today) ==
    OrderByDateAsc(store,
        ObservedBetween(store, start_date, IF end_date = NoDate THEN today ELSE end_date))

\* FredAero.get_index_range_for_analysis: the listings of primary keys it
\* may return; end_date None stands for today.
GetIndexRangeForAnalysis(store, start_date, end_date, today) ==
    OrderByDateAsc(store,
        ObservedBetween(store, FirstOfMonth(start_date),
                        FirstOfMonth(IF end_date = NoDate THEN today ELSE end_date)))

\* ------------------------------------------------------------------------
\* Quote upload (quotes/views.py, quotes/models/models.py)
\* ------------------------------------------------------------------------

\* DateField.to_python on a string: YYYY-M[M]-D[D] with a four-digit year
\* naming a day of the calendar; anything else is a ValidationError.
DateFieldAccepts(s) ==
    /\ Len(s) >= 8
    /\ Len(s) <= 10
    /\ \A i \in 1..4 : IsDigit(s[i])
    /\ s[5] = "-"
    /\ \E ml \in {1, 2} :
          /\ \A i \in 6..(5 + ml) : IsDigit(s[i])
          /\ s[6 + ml] = "-"
          /\ Len(s) - (6 + ml) \in {1, 2}
          /\ \A i \in (7 + ml)..Len(s) : IsDigit(s[i])
          /\ NumberAt(s, 1, 4) >= 1
          /\ NumberAt(s, 6, 5 + ml) \in 1..12
          /\ NumberAt(s, 7 + ml, Len(s)) >= 1
          /\ NumberAt(s, 7 + ml, Len(s))
                <= DaysInMonth(NumberAt(s, 1, 4), NumberAt(s, 6, 5 + ml))

\* The rows Supplier.objects.get(name=name) selects.
SuppliersNamed(suppliers, name) == {k \in DOMAIN suppliers : suppliers[k] = name}

\* get_or_create, the SELECT: more than one row is MultipleObjectsReturned,
\* which leaves the view's try block; no row sends get_or_create on to its
\* INSERT (found = FALSE).
SelectSupplier(suppliers, name) ==
    IF Cardinality(SuppliersNamed(suppliers, name)) > 1
    THEN [raised |-> TRUE, found |-> FALSE, pk |-> 0]
    ELSE IF SuppliersNamed(suppliers, name) = {}
         THEN [raised |-> FALSE, found |-> FALSE, pk |-> 0]
         ELSE [raised |-> FALSE, found |-> TRUE,
               pk |-> CHOOSE k \in SuppliersNamed(suppliers, name) : TRUE]

\* get_or_create, the INSERT: the name column is NOT NULL, so a None name
\* raises IntegrityError; the column is not unique, so any other name is
\* inserted even when a row of that name has appeared since the SELECT.
InsertSupplier(suppliers, name) ==
    IF name.t = "none" THEN [raised |-> TRUE, suppliers |-> suppliers, pk |-> 0]
    ELSE [raised |-> FALSE, suppliers |-> Append(suppliers, name),
          pk |-> Len(suppliers) + 1]

\* Quote.objects.create: ValidationError on a quote_date string that is no
\* date, IntegrityError on a None quote_date or quote_number and on a
\* (supplier, quote_number) pair already stored; otherwise the row is
\* inserted and committed.
CreateQuote(quotes, supplier, quote_number, quote_date) ==
    IF \/ quote_date.t = "none"
       \/ ~DateFieldAccepts(quote_date.s)
       \/ quote_number.t = "none"
       \/ \E k \in DOMAIN quotes :
             quotes[k].supplier = supplier /\ quotes[k].quote_number = quote_number
    THEN [raised |-> TRUE, quotes |-> quotes, pk |-> 0]
    ELSE [raised |-> FALSE,
          quotes |-> Append(quotes, [supplier |-> supplier, quote_number |-> quote_number,
                                     quote_date |-> quote_date, processed |-> FALSE]),
          pk |-> Len(quotes) + 1]

\* ReportGenerator.generate_docx raises on the first item whose item_number
\* or description is None (a table cell's text), whose quantity or
\* unit_price is None (quantity * unit_price), or whose price analysis
\* raises; generate_pdf catches every exception itself.
GenerateDocxRaises(items, analyzerUp) ==
    \E i \in 1..Len(items) :
        \/ items[i].item_number.t = "none"
        \/ items[i].description.t = "none"
        \/ items[i].quantity.t = "none"
        \/ items[i].unit_price.t = "none"
        \/ ~analyzerUp

\* quote.save() after the reports: the UPDATE of the request's own row.
SaveProcessed(quotes, pk) == [quotes EXCEPT ![pk].processed = TRUE]

\* ------------------------------------------------------------------------
\* Inputs of the analyzer, the index lookups and the upload view
\* ------------------------------------------------------------------------

\* Purchases the three units' tables hold in total.
MaxPurchases == 3

ItemNumbers == {"P-100", "P-200"}

\* Rows of historical_purchases: two of one date, one dated exactly the
\* default cutoff of a call at ClockStart, one of another item.
PurchasePool ==
    { [item_number |-> "P-100", price |-> 10, purchase_date |-> ClockStart - Days(30)],
      [item_number |-> "P-100", price |-> 12, purchase_date |-> ClockStart - Days(30)],
      [item_number |-> "P-100", price |-> 8,
       purchase_date |-> ClockStart - Days(LookbackDays)],
      [item_number |-> "P-200", price |-> 10, purchase_date |-> ClockStart - Days(30)] }

\* The table of each unit, given the purchases in the order they were made.
TablesOf(purchases) ==
    [u \in UnitSet |->
        LET At(p) == p[1] = u
            mine == SelectSeq(purchases, At)
        IN [i \in 1..Len(mine) |-> mine[i][2]]]

PriceTables == {TablesOf(p) : p \in SeqsUpTo(UnitSet \X PurchasePool, MaxPurchases)}

\* The units whose data source is down: none, or one of them.
Outages == {{}} \cup {{u} : u \in UnitSet}

\* The units the loop reaches before one raises.
Queried(down) ==
    {BusinessUnits[i] : i \in {k \in 1..Len(BusinessUnits) :
                                 \A j \in 1..k : BusinessUnits[j] \notin down}}

\* What the cursors return in one call: for each unit queried one of its
\* possible results, nothing for a unit never queried.
ReturnsOf(tables, down, item_number, cutoff_date, u) ==
    IF u \in Queried(down) THEN QueryResults(tables[u], item_number, cutoff_date)
    ELSE {<<>>}

Returns(tables, down, item_number, cutoff_date) ==
    {[u \in UnitSet |-> IF u = BusinessUnits[1] THEN ra
                        ELSE IF u = BusinessUnits[2] THEN rb ELSE rc] :
        ra \in ReturnsOf(tables, down, item_number, cutoff_date, BusinessUnits[1]),
        rb \in ReturnsOf(tables, down, item_number, cutoff_date, BusinessUnits[2]),
        rc \in ReturnsOf(tables, down, item_number, cutoff_date, BusinessUnits[3])}

\* Observations of a frame handed to calculate_price_statistics.
MaxStatRows == 3

\* Dates around the two cutoffs of a call at ClockStart.
StatDates ==
    { ClockStart - Days(RecentDays) + 1, ClockStart - Days(RecentDays),
      ClockStart - Days(RecentDays) - 1, ClockStart - Days(PreviousDays),
      ClockStart - Days(PreviousDays) - 1 }

StatPrices == {0, 10, 30}

StatFrames ==
    SeqsUpTo([business_unit : {BusinessUnits[1]}, price : StatPrices,
              purchase_date : StatDates], MaxStatRows)

\* Length of a series handed to _normalize_series.
MaxSeriesLen == 3

SeriesValues == {0, 5, 10, 90, 100, 110}

SeriesInputs == SeqsUpTo(SeriesValues, MaxSeriesLen)

\* Rows of the FredAero table.
MaxIndexRows == 3

ObservationDates ==
    { [y |-> 2024, m |-> 1, d |-> 1], [y |-> 2024, m |-> 2, d |-> 1],
      [y |-> 2024, m |-> 2, d |-> 15], [y |-> 2024, m |-> 3, d |-> 1], NoDate }

IndexStores ==
    SeqsUpTo([observation_date : ObservationDates, index_value : {100, 105}], MaxIndexRows)

TargetDates ==
    { [y |-> 2023, m |-> 11, d |-> 15], [y |-> 2024, m |-> 1, d |-> 1],
      [y |-> 2024, m |-> 2, d |-> 20], [y |-> 2024, m |-> 3, d |-> 5] }

EndDates ==
    { [y |-> 2024, m |-> 1, d |-> 20], [y |-> 2024, m |-> 2, d |-> 10],
      [y |-> 2024, m |-> 3, d |-> 1], NoDate }

\* date.today() of a range lookup.
IndexToday == [y |-> 2024, m |-> 2, d |-> 28]

\* Requests the upload view serves in all.
MaxUploads == 3

\* The clients that post, at once or one after another.
Clients == {1, 2}

\* An item as _validate_quote_data returns it, every field present.
PricedItem ==
    [item_number |-> Str(<<"P", "1">>), description |-> Str(<<"b", "o", "l", "t">>),
     quantity |-> Num(1), unit_price |-> Num(1), unit_of_measure |-> Str(<<"E", "A">>)]

\* Items lists of an extracted quote: none, a complete item, and an item
\* with one of its optional fields None.
UploadItemLists ==
    { <<>>, <<PricedItem>>,
      <<[PricedItem EXCEPT !.unit_price = NoneV]>>,
      <<[PricedItem EXCEPT !.quantity = NoneV]>>,
      <<[PricedItem EXCEPT !.description = NoneV]>>,
      <<[PricedItem EXCEPT !.item_number = NoneV]>> }

\* A quote as extracted from a well-read file.
PlainQuoteData ==
    [supplier_name |-> Str(<<"A", "c", "m", "e">>), quote_number |-> Str(<<"Q", "-", "1">>),
     quote_date |-> Str(Strftime([y |-> 2024, m |-> 3, d |-> 7])), items |-> <<>>]

\* What extract_quote_data returned for the uploaded file: the plain quote
\* of either supplier with every items list, and the plain quote with its
\* supplier, its number or its date None, its date empty, or its date in
\* the year 99 as strftime prints it.
UploadQuoteData ==
    {[PlainQuoteData EXCEPT !.supplier_name = n, !.items = it] :
        n \in {Str(<<"A", "c", "m", "e">>), Str(<<"B", "o", "l", "t">>)},
        it \in UploadItemLists}
    \cup {[PlainQuoteData EXCEPT !.supplier_name = NoneV],
          [PlainQuoteData EXCEPT !.quote_number = NoneV]}
    \cup {[PlainQuoteData EXCEPT !.quote_date = d] :
             d \in {NoneV, Str(<<>>), Str(Strftime([y |-> 99, m |-> 1, d |-> 1]))}}

\* A request without a file or with a file that is not a PDF; a PDF upload
\* broken before the database is touched; and the PDF uploads that reach
\* the database, the final save or the price analysis of an item failing
\* for one of them.
UploadRequests ==
    [file : {"missing", "other"}, fault : {"none"}, quote_data : {PlainQuoteData},
     analyzerUp : {TRUE}]
    \cup [file : {"pdf"}, fault : {"write", "pdf_text", "extract"},
          quote_data : {PlainQuoteData}, analyzerUp : {TRUE}]
    \cup [file : {"pdf"}, fault : {"none"}, quote_data : UploadQuoteData,
          analyzerUp : {TRUE}]
    \cup [file : {"pdf"}, fault : {"save"}, quote_data : {PlainQuoteData},
          analyzerUp : {TRUE}]
    \cup [file : {"pdf"}, fault : {"none"},
          quote_data : {[PlainQuoteData EXCEPT !.items = <<PricedItem>>]},
          analyzerUp : {FALSE}]

\* ------------------------------------------------------------------------
\* Idle values of the state each specification leaves alone
\* ------------------------------------------------------------------------

NoOp ==
    [kind |-> "none", pk |-> 0, is_active |-> FALSE, ok |-> TRUE,
     prevActive |-> {}, prevLen |-> 0, result |-> [raised |-> "", value |-> NoPair]]

\* The two administrators' sessions.
Procs == {1, 2}

NoInstance == Instance(0, 1, DefaultPromptPair, FALSE)

\* prevActive: the rows that were active when the session called save().
IdleProc ==
    [p \in Procs |-> [pc |-> "idle", inst |-> NoInstance, ok |-> TRUE, prevActive |-> {}]]

\* at: where each session stood when the resolution ran.
NoSeen ==
    [kind |-> "none", nActive |-> 0, result |-> [raised |-> "", value |-> NoPair],
     at |-> IdleProc]

NoExt ==
    [done |-> FALSE, text |-> NoText, storeUp |-> TRUE, llm |-> LlmRaises,
     today |-> [y |-> 1, m |-> 1, d |-> 1], nActive |-> 0,
     result |-> [raised |-> FALSE, failed |-> "none", value |-> EmptyQuoteData]]

NoTxt == [done |-> FALSE, raw |-> <<>>, out |-> <<>>]

NoFetch == [raised |-> FALSE, data |-> <<>>, failed_sources |-> {}]

NoAnalysis ==
    [raised |-> FALSE, has_data |-> FALSE, plot_path |-> NoPlot, statistics |-> EmptyStatistics]

NoPa ==
    [tables |-> [u \in UnitSet |-> <<>>], down |-> {}, op |-> "none", item_number |-> "",
     now |-> 0, plotOk |-> TRUE, returned |-> [u \in UnitSet |-> <<>>],
     fetch |-> NoFetch, analysis |-> NoAnalysis]

NoSt == [data |-> <<>>, done |-> FALSE, reads |-> <<>>, stats |-> EmptyStatistics]

NoNz == [series |-> <<>>, done |-> FALSE, out |-> <<>>]

NoFred ==
    [store |-> <<>>, op |-> "none", a |-> NoDate, b |-> NoDate, today |-> NoDate,
     one |-> 0, many |-> <<>>]

\* A client that has not posted: pc is where its request stands, supplier
\* and quote the primary keys the request holds, outcome its response.
NoRequest ==
    [pc |-> "idle",
     req |-> [file |-> "missing", fault |-> "none", quote_data |-> PlainQuoteData,
              analyzerUp |-> TRUE],
     supplier |-> 0, quote |-> 0, outcome |-> "none"]

NoUp ==
    [suppliers |-> <<>>, quotes |-> <<>>, n |-> 0, reqs |-> [c \in Clients |-> NoRequest]]

\* The extractor's state and the analyzer's, as the other's specifications
\* leave them.
extractorVars == <<configs, lastOp, proc, seen, ext, txt>>

analyzerVars == <<pa, st, nz, fred, up>>

IdleExtractor ==
    /\ configs = <<>>
    /\ lastOp = NoOp
    /\ proc = IdleProc
    /\ seen = NoSeen
    /\ ext = NoExt
    /\ txt = NoTxt

IdleAnalyzer ==
    /\ pa = NoPa
    /\ st = NoSt
    /\ nz = NoNz
    /\ fred = NoFred
    /\ up = NoUp

\* ------------------------------------------------------------------------
\* Spec: saves and resolutions executed one at a time
\* ------------------------------------------------------------------------

Init ==
    /\ configs = <<>>
    /\ lastOp = NoOp
    /\ proc = IdleProc
    /\ seen = NoSeen
    /\ ext = NoExt
    /\ txt = NoTxt
    /\ IdleAnalyzer

\* One GPTPromptConfig.save() call on an instance with any field values:
\* a new instance (pk 0) or a possibly stale copy of an existing row.
Save ==
    \E pk \in 0..Len(configs), name \in Names, pair \in PromptPairs, active \in BOOLEAN :
        /\ pk = 0 => Len(configs) < MaxConfigs
        /\ LET r == SaveConfig(configs, Instance(pk, name, pair, active))
           IN /\ configs' = r.store
              /\ lastOp' = [kind |-> "save", pk |-> r.pk, is_active |-> active,
                            ok |-> r.ok, prevActive |-> ActiveSet(configs),
                            prevLen |-> Len(configs),
                            result |-> [raised |-> "", value |-> NoPair]]
        /\ UNCHANGED <<proc, seen, ext, txt, analyzerVars>>

\* One call of _get_active_prompt_config against the store as it is.
Resolve ==
    /\ lastOp' = [NoOp EXCEPT !.kind = "resolve", !.prevActive = ActiveSet(configs),
                              !.prevLen = Len(configs),
                              !.result = GetActivePromptConfig(configs, TRUE)]
    /\ UNCHANGED <<configs, proc, seen, ext, txt, analyzerVars>>

Next == Save \/ Resolve

Spec == Init /\ [][Next]_vars

\* ------------------------------------------------------------------------
\* SpecConc: two save() calls whose statements interleave, beside a prompt
\* resolution and an extraction
\* ------------------------------------------------------------------------

\* The pair stored with config k.
PairFor(k) ==
    IF k % 2 = 1
    THEN <<<<"Return JSON like", "{format_instructions}">>, <<"Quote text:", "{text_content}">>>>
    ELSE <<<<"Follow the schema", "{schema}">>, DefaultUserPrompt>>

\* A table with room for at most one more row and with at most one active
\* config, as sequential saves leave it.
ConcStores ==
    {[k \in 1..n |-> StoredConfig(PairFor(k), k, k = a)] :
        n \in (MaxConfigs - 1)..MaxConfigs, a \in 0..MaxConfigs}

\* The instance a session works on: a new one (pk 0) with the fields entered,
\* or the copy of row pk as loaded, with is_active as entered.
EditedInstance(store, pk, name, pair, active) ==
    IF pk = 0 THEN Instance(0, name, pair, active)
    ELSE [pk |-> pk, name |-> store[pk].name, system_prompt |-> store[pk].system_prompt,
          user_prompt |-> store[pk].user_prompt, is_active |-> active]

InitConc ==
    /\ configs \in ConcStores
    /\ lastOp = NoOp
    /\ proc = IdleProc
    /\ seen = NoSeen
    /\ ext = NoExt
    /\ txt = NoTxt
    /\ IdleAnalyzer

\* Session p fills in a new config or loads config pk, and sets is_active;
\* save() is called.
ConcBegin(p) ==
    /\ proc[p].pc = "idle"
    /\ \E pk \in 0..Len(configs), name \in Names, pair \in PromptPairs, active \in BOOLEAN :
          /\ pk = 0 => Len(configs) < MaxConfigs
          /\ proc' = [proc EXCEPT ![p] =
                         [pc |-> "loaded",
                          inst |-> EditedInstance(configs, pk, name, pair, active),
                          ok |-> TRUE, prevActive |-> ActiveSet(configs)]]
    /\ UNCHANGED <<configs, lastOp, seen, ext, txt, analyzerVars>>

\* save(), first statement: the update that deactivates the other rows.
ConcDeactivate(p) ==
    /\ proc[p].pc = "loaded"
    /\ proc[p].inst.is_active
    /\ configs' = DeactivateOthers(configs, proc[p].inst.pk)
    /\ proc' = [proc EXCEPT ![p].pc = "updated"]
    /\ UNCHANGED <<lastOp, seen, ext, txt, analyzerVars>>

\* save(), second statement: super().save() writes the instance's own row.
ConcWrite(p) ==
    /\ proc[p].pc = (IF proc[p].inst.is_active THEN "updated" ELSE "loaded")
    /\ LET r == ModelSave(configs, proc[p].inst)
       IN /\ configs' = r.store
          /\ proc' = [proc EXCEPT ![p].pc = "done", ![p].ok = r.ok, ![p].inst.pk = r.pk]
    /\ UNCHANGED <<lastOp, seen, ext, txt, analyzerVars>>

\* A prompt resolution at any point of the two saves.
ConcResolve ==
    /\ seen.kind = "none"
    /\ seen' = [kind |-> "resolve", nActive |-> Cardinality(ActiveSet(configs)),
                result |-> GetActivePromptConfig(configs, TRUE), at |-> proc]
    /\ UNCHANGED <<configs, lastOp, proc, ext, txt, analyzerVars>>

\* An extraction at any point of the two saves, the model answering well.
ConcExtract ==
    /\ ~ext.done
    /\ \E today \in Clock :
          ext' = [done |-> TRUE, text |-> TextOf(<<97, 32, 233, 32, 97>>), storeUp |-> TRUE,
                  llm |-> Answer(PlainContent), today |-> today,
                  nActive |-> Cardinality(ActiveSet(configs)),
                  result |-> ExtractQuoteData(TextOf(<<97, 32, 233, 32, 97>>), configs, TRUE,
                                              Answer(PlainContent), today)]
    /\ UNCHANGED <<configs, lastOp, proc, seen, txt, analyzerVars>>

NextConc ==
    \/ \E p \in Procs : ConcBegin(p)
    \/ \E p \in Procs : ConcDeactivate(p)
    \/ \E p \in Procs : ConcWrite(p)
    \/ ConcResolve
    \/ ConcExtract

SpecConc == InitConc /\ [][NextConc]_vars

\* ------------------------------------------------------------------------
\* SpecText: the text normaliser applied to every bounded raw text
\* ------------------------------------------------------------------------

InitText ==
    /\ configs = <<>>
    /\ lastOp = NoOp
    /\ proc = IdleProc
    /\ seen = NoSeen
    /\ ext = NoExt
    /\ txt \in {[done |-> FALSE, raw |-> t, out |-> <<>>] : t \in RawTexts}
    /\ IdleAnalyzer

Preprocess ==
    /\ ~txt.done
    /\ txt' = [txt EXCEPT !.done = TRUE, !.out = PreprocessText(txt.raw)]
    /\ UNCHANGED <<configs, lastOp, proc, seen, ext, analyzerVars>>

NextText == Preprocess

SpecText == InitText /\ [][NextText]_vars

\* ------------------------------------------------------------------------
\* SpecExtract: one extract_quote_data call in every environment
\* ------------------------------------------------------------------------

\* Stores a call may meet: empty, one active config of either pair, an
\* inactive config only, and two active configs (reached in SpecConc).
ExtractStores ==
    {<<>>}
    \cup {<<StoredConfig(p, 1, a)>> : p \in PromptPairs, a \in BOOLEAN}
    \cup {<<StoredConfig(p, 1, TRUE), StoredConfig(q, 2, TRUE)>> : p \in PromptPairs, q \in PromptPairs}

InitExtract ==
    /\ configs \in ExtractStores
    /\ lastOp = NoOp
    /\ proc = IdleProc
    /\ seen = NoSeen
    /\ ext = NoExt
    /\ txt = NoTxt
    /\ IdleAnalyzer

\* One extract_quote_data call.
Extract ==
    /\ ~ext.done
    /\ \E inp \in ExtractInputs :
          ext' = [done |-> TRUE, text |-> inp.text, storeUp |-> inp.storeUp,
                  llm |-> inp.llm, today |-> inp.today,
                  nActive |-> Cardinality(ActiveSet(configs)),
                  result |-> ExtractQuoteData(inp.text, configs, inp.storeUp, inp.llm,
                                              inp.today)]
    /\ UNCHANGED <<configs, lastOp, proc, seen, txt, analyzerVars>>

NextExtract == Extract

SpecExtract == InitExtract /\ [][NextExtract]_vars

\* ------------------------------------------------------------------------
\* SpecPrices: one fetch_historical_prices or analyze_item_prices call over
\* every bounded content of the three units' tables
\* ------------------------------------------------------------------------

InitPrices ==
    /\ IdleExtractor
    /\ pa \in {[NoPa EXCEPT !.tables = t, !.down = d] : t \in PriceTables, d \in Outages}
    /\ st = NoSt
    /\ nz = NoNz
    /\ fred = NoFred
    /\ up = NoUp

\* One fetch_historical_prices(item_number) call with the default lookback.
FetchPrices ==
    /\ pa.op = "none"
    /\ \E item_number \in ItemNumbers, now \in ClockReadings :
          \E returned \in Returns(pa.tables, pa.down, item_number, now - Days(LookbackDays)) :
              pa' = [pa EXCEPT !.op = "fetch", !.item_number = item_number, !.now = now,
                               !.returned = returned,
                               !.fetch = FetchHistoricalPrices(returned, pa.down)]
    /\ UNCHANGED <<extractorVars, st, nz, fred, up>>

\* One analyze_item_prices(item_number) call: the fetch, the plot and the
\* statistics, the clock read once by the fetch and three times by the
\* statistics.
AnalyzePrices ==
    /\ pa.op = "none"
    /\ \E item_number \in ItemNumbers, reads \in ClockReads(4), plotOk \in BOOLEAN :
          \E returned \in Returns(pa.tables, pa.down, item_number,
                                  reads[1] - Days(LookbackDays)) :
              pa' = [pa EXCEPT !.op = "analyze", !.item_number = item_number,
                               !.now = reads[1], !.plotOk = plotOk, !.returned = returned,
                               !.fetch = FetchHistoricalPrices(returned, pa.down),
                               !.analysis =
                                   AnalyzeItemPrices(FetchHistoricalPrices(returned, pa.down),
                                                     item_number, plotOk,
                                                     <<reads[2], reads[3], reads[4]>>)]
    /\ UNCHANGED <<extractorVars, st, nz, fred, up>>

NextPrices == FetchPrices \/ AnalyzePrices

SpecPrices == InitPrices /\ [][NextPrices]_vars

\* ------------------------------------------------------------------------
\* SpecStats: calculate_price_statistics on every bounded frame
\* ------------------------------------------------------------------------

InitStats ==
    /\ IdleExtractor
    /\ pa = NoPa
    /\ st \in {[NoSt EXCEPT !.data = d] : d \in StatFrames}
    /\ nz = NoNz
    /\ fred = NoFred
    /\ up = NoUp

CalculateStatistics ==
    /\ ~st.done
    /\ \E reads \in ClockReads(3) :
          st' = [st EXCEPT !.done = TRUE, !.reads = reads,
                           !.stats = CalculatePriceStatistics(st.data, reads)]
    /\ UNCHANGED <<extractorVars, pa, nz, fred, up>>

NextStats == CalculateStatistics

SpecStats == InitStats /\ [][NextStats]_vars

\* ------------------------------------------------------------------------
\* SpecNorm: _normalize_series on every bounded series
\* ------------------------------------------------------------------------

InitNorm ==
    /\ IdleExtractor
    /\ pa = NoPa
    /\ st = NoSt
    /\ nz \in {[NoNz EXCEPT !.series = s] : s \in SeriesInputs}
    /\ fred = NoFred
    /\ up = NoUp

Normalize ==
    /\ ~nz.done
    /\ nz' = [nz EXCEPT !.done = TRUE, !.out = NormalizeSeries(nz.series)]
    /\ UNCHANGED <<extractorVars, pa, st, fred, up>>

NextNorm == Normalize

SpecNorm == InitNorm /\ [][NextNorm]_vars

\* ------------------------------------------------------------------------
\* SpecIndex: one FredAero lookup over every bounded table
\* ------------------------------------------------------------------------

InitIndex ==
    /\ IdleExtractor
    /\ pa = NoPa
    /\ st = NoSt
    /\ nz = NoNz
    /\ fred \in {[NoFred EXCEPT !.store = s] : s \in IndexStores}
    /\ up = NoUp

\* FredAero.get_index_for_date(target_date)
LookupIndex ==
    /\ fred.op = "none"
    /\ \E target_date \in TargetDates :
          \E k \in GetIndexForDate(fred.store, target_date) :
              fred' = [fred EXCEPT !.op = "get", !.a = target_date, !.one = k]
    /\ UNCHANGED <<extractorVars, pa, st, nz, up>>

\* FredAero.get_index_range_for_analysis(start_date, end_date)
LookupRange ==
    /\ fred.op = "none"
    /\ \E start_date \in TargetDates, end_date \in EndDates :
          \E listing \in GetIndexRangeForAnalysis(fred.store, start_date, end_date, IndexToday) :
              fred' = [fred EXCEPT !.op = "range", !.a = start_date, !.b = end_date,
                                   !.today = IndexToday, !.many = listing]
    /\ UNCHANGED <<extractorVars, pa, st, nz, up>>

NextIndex == LookupIndex \/ LookupRange

SpecIndex == InitIndex /\ [][NextIndex]_vars

\* ------------------------------------------------------------------------
\* SpecUpload: a bounded number of uploads by two clients against one
\* store, each statement of QuoteUploadView.post committed on its own
\* ------------------------------------------------------------------------

InitUpload ==
    /\ IdleExtractor
    /\ IdleAnalyzer

\* The response that ends client c's request.
Respond(c, outcome) ==
    [up.reqs EXCEPT ![c].pc = "done", ![c].outcome = outcome]

\* post up to the extraction: the file checks, the write of the upload, the
\* text of the PDF and extract_quote_data.
Receive(c) ==
    /\ up.reqs[c].pc \in {"idle", "done"}
    /\ up.n < MaxUploads
    /\ \E req \in UploadRequests :
          up' = [up EXCEPT !.n = up.n + 1, !.reqs[c] =
                    IF req.file # "pdf"
                    THEN [NoRequest EXCEPT !.pc = "done", !.req = req, !.outcome = "rejected"]
                    ELSE IF req.fault \in {"write", "pdf_text", "extract"}
                    THEN [NoRequest EXCEPT !.pc = "done", !.req = req, !.outcome = "error"]
                    ELSE [NoRequest EXCEPT !.pc = "extracted", !.req = req]]
    /\ UNCHANGED <<extractorVars, pa, st, nz, fred>>

\* Supplier.objects.get_or_create, its SELECT.
FindSupplier(c) ==
    /\ up.reqs[c].pc = "extracted"
    /\ LET r == SelectSupplier(up.suppliers, up.reqs[c].req.quote_data.supplier_name)
       IN up' = [up EXCEPT !.reqs =
                    IF r.raised THEN Respond(c, "error")
                    ELSE IF r.found
                    THEN [up.reqs EXCEPT ![c].pc = "supplier", ![c].supplier = r.pk]
                    ELSE [up.reqs EXCEPT ![c].pc = "no_supplier"]]
    /\ UNCHANGED <<extractorVars, pa, st, nz, fred>>

\* Supplier.objects.get_or_create, its INSERT.
AddSupplier(c) ==
    /\ up.reqs[c].pc = "no_supplier"
    /\ LET r == InsertSupplier(up.suppliers, up.reqs[c].req.quote_data.supplier_name)
       IN up' = [up EXCEPT !.suppliers = r.suppliers,
                           !.reqs = IF r.raised THEN Respond(c, "error")
                                    ELSE [up.reqs EXCEPT ![c].pc = "supplier",
                                                         ![c].supplier = r.pk]]
    /\ UNCHANGED <<extractorVars, pa, st, nz, fred>>

\* Quote.objects.create
AddQuote(c) ==
    /\ up.reqs[c].pc = "supplier"
    /\ LET r == CreateQuote(up.quotes, up.reqs[c].supplier,
                            up.reqs[c].req.quote_data.quote_number,
                            up.reqs[c].req.quote_data.quote_date)
       IN up' = [up EXCEPT !.quotes = r.quotes,
                           !.reqs = IF r.raised THEN Respond(c, "error")
                                    ELSE [up.reqs EXCEPT ![c].pc = "created",
                                                         ![c].quote = r.pk]]
    /\ UNCHANGED <<extractorVars, pa, st, nz, fred>>

\* ReportGenerator(...), generate_pdf(), generate_docx()
GenerateReports(c) ==
    /\ up.reqs[c].pc = "created"
    /\ up' = [up EXCEPT !.reqs =
                 IF GenerateDocxRaises(up.reqs[c].req.quote_data.items,
                                       up.reqs[c].req.analyzerUp)
                 THEN Respond(c, "error")
                 ELSE [up.reqs EXCEPT ![c].pc = "generated"]]
    /\ UNCHANGED <<extractorVars, pa, st, nz, fred>>

\* quote.save() and the redirect.
SaveQuote(c) ==
    /\ up.reqs[c].pc = "generated"
    /\ up' = IF up.reqs[c].req.fault = "save"
             THEN [up EXCEPT !.reqs = Respond(c, "error")]
             ELSE [up EXCEPT !.quotes = SaveProcessed(up.quotes, up.reqs[c].quote),
                             !.reqs = Respond(c, "redirect")]
    /\ UNCHANGED <<extractorVars, pa, st, nz, fred>>

NextUpload ==
    \/ \E c \in Clients : Receive(c)
    \/ \E c \in Clients : FindSupplier(c)
    \/ \E c \in Clients : AddSupplier(c)
    \/ \E c \in Clients : AddQuote(c)
    \/ \E c \in Clients : GenerateReports(c)
    \/ \E c \in Clients : SaveQuote(c)

SpecUpload == InitUpload /\ [][NextUpload]_vars

\* ------------------------------------------------------------------------
\* Claims
\* ------------------------------------------------------------------------

\* C1: after any sequence of save() calls executed one at a time, at most one
\* GPTPromptConfig has is_active = true.
C1_AtMostOneActive == Cardinality(ActiveSet(configs)) <= 1

\* A save activated a config while a different config was the active one.
C1_Witness ==
    /\ lastOp.kind = "save" /\ lastOp.ok /\ lastOp.is_active
    /\ lastOp.prevActive # {} /\ lastOp.pk \notin lastOp.prevActive
    /\ Len(configs) = MaxConfigs

\* C3: if A is the active config and B is saved with is_active = true, then
\* exactly one config is active afterwards, it is B, and A reads inactive.
C3_ActivateReplaces ==
    (lastOp.kind = "save" /\ lastOp.ok /\ lastOp.is_active) =>
        \A a \in lastOp.prevActive :
            a # lastOp.pk => /\ ActiveSet(configs) = {lastOp.pk}
                             /\ ~configs[a].is_active

\* B, saved active, replaced the active A; B existed before as an inactive row.
C3_Witness ==
    /\ lastOp.kind = "save" /\ lastOp.ok /\ lastOp.is_active
    /\ lastOp.pk <= lastOp.prevLen
    /\ \E a \in lastOp.prevActive : a # lastOp.pk /\ ~configs[a].is_active
    /\ configs[lastOp.pk].is_active

\* C10: with no active config the resolver returns the hardcoded default pair,
\* the same whatever inactive configs the store holds.
C10_DefaultWhenNoneActive ==
    (lastOp.kind = "resolve" /\ ActiveSet(configs) = {}) =>
        /\ lastOp.result.raised = ""
        /\ lastOp.result.value = DefaultPromptPair

\* A resolution against a store holding only inactive configs, as many as fit.
C10_Witness ==
    /\ lastOp.kind = "resolve" /\ ActiveSet(configs) = {}
    /\ Len(configs) = MaxConfigs
    /\ lastOp.result.value = DefaultPromptPair

\* C6: for every raw text the output of _preprocess_text holds only characters
\* below code point 128 and no two consecutive spaces.
C6_AsciiNoDoubleSpace ==
    txt.done =>
        /\ \A i \in 1..Len(txt.out) : txt.out[i] < 128
        /\ \A i \in 1..(Len(txt.out) - 1) : ~(txt.out[i] = 32 /\ txt.out[i + 1] = 32)

\* C2: when two save() calls that each set a different config active
\* interleave, the two targets are never both active once both have finished.
C2_ConcurrentActivations ==
    (/\ \A p \in Procs : proc[p].pc = "done" /\ proc[p].ok /\ proc[p].inst.is_active
     /\ proc[1].inst.pk # proc[2].inst.pk)
        => ~(configs[proc[1].inst.pk].is_active /\ configs[proc[2].inst.pk].is_active)

\* C4: extract_quote_data never raises; whichever step fails, it returns the
\* QuoteData with null supplier and number, today's date and no items.
C4_NeverRaisesFallback ==
    ext.done =>
        /\ ~ext.result.raised
        /\ (\/ ext.result.failed # "none"
            \/ ~ext.text.some
            \/ ~ext.storeUp
            \/ ext.nActive > 1
            \/ ext.llm.raised
            \/ ~ext.llm.content.json
            \/ ~ext.llm.content.itemsOk
            \/ \E i \in 1..Len(ext.llm.content.items) :
                  "bad" \in {ext.llm.content.items[i].quantity.t,
                             ext.llm.content.items[i].unit_price.t})
           => ext.result.value =
                 [supplier_name |-> NoneV, quote_number |-> NoneV,
                  quote_date |-> Str(Strftime(ext.today)), items |-> <<>>]

\* The model named a supplier and a date, an item did not fit the schema, and
\* the call returned the fallback.
C4_Witness ==
    /\ ext.done /\ ext.result.failed = "parse" /\ ext.llm.content.json
    /\ ext.llm.content.supplier_name.t = "str"
    /\ Truthy(ext.llm.content.quote_date)
    /\ Len(ext.llm.content.items) = 2
    /\ ext.result.value.supplier_name = NoneV
    /\ ext.result.value.items = <<>>

\* C5: more than one active config at resolution time is surfaced to the
\* caller of the extraction as an error, not as a normal-looking result.
C5_MultipleActiveIsFatal ==
    (ext.done /\ ext.nActive > 1) => ext.result.raised

\* C7: every returned item's unit_of_measure is non-empty, upper-cased and
\* without leading or trailing whitespace.
C7_UomNormalised ==
    ext.done =>
        \A i \in 1..Len(ext.result.value.items) :
            LET u == ext.result.value.items[i].unit_of_measure
            IN /\ u.t = "str"
               /\ u.s # <<>>
               /\ \A k \in 1..Len(u.s) : \A j \in 1..Len(LowerCase) : u.s[k] # LowerCase[j]
               /\ ~IsBlank(u.s[1])
               /\ ~IsBlank(u.s[Len(u.s)])

\* C8: every returned quantity and unit_price is absent when the model's was
\* absent, and otherwise non-negative and the absolute value of the model's.
C8_AbsoluteValues ==
    ext.done =>
        /\ ext.result.failed = "none" =>
              Len(ext.result.value.items) = Len(ext.llm.content.items)
        /\ \A i \in 1..Len(ext.result.value.items) :
              LET out == ext.result.value.items[i]
                  got == ext.llm.content.items[i]
              IN /\ got.quantity.t = "none" => out.quantity = NoneV
                 /\ got.quantity.t = "num" =>
                       /\ out.quantity.t = "num" /\ out.quantity.n >= 0
                       /\ out.quantity.n \in {got.quantity.n, 0 - got.quantity.n}
                 /\ got.unit_price.t = "none" => out.unit_price = NoneV
                 /\ got.unit_price.t = "num" =>
                       /\ out.unit_price.t = "num" /\ out.unit_price.n >= 0
                       /\ out.unit_price.n \in {got.unit_price.n, 0 - got.unit_price.n}

\* A negative quantity came back positive beside an absent unit price that
\* stayed absent, in the second of two items.
C8_Witness ==
    /\ ext.done /\ ext.result.failed = "none"
    /\ Len(ext.result.value.items) = 2
    /\ ext.llm.content.items[2].quantity.t = "num"
    /\ ext.llm.content.items[2].quantity.n < 0
    /\ ext.result.value.items[2].quantity.n = 0 - ext.llm.content.items[2].quantity.n
    /\ ext.llm.content.items[2].unit_price.t = "none"
    /\ ext.result.value.items[2].unit_price = NoneV

\* A string of the form dddd-dd-dd.
IsIsoDate(s) ==
    /\ Len(s) = 10
    /\ \A i \in {1, 2, 3, 4, 6, 7, 9, 10} : IsDigit(s[i])
    /\ s[5] = "-" /\ s[8] = "-"

\* C9: after a successful parse a quote_date that is present but does not
\* parse as YYYY-MM-DD becomes today's date, a parsable one is kept as a
\* YYYY-MM-DD string, and supplier_name, quote_number and the items are kept.
C9_DateValidated ==
    (ext.done /\ ext.result.failed = "none" /\ ext.llm.content.quote_date.t = "str") =>
        LET got == ext.llm.content
            out == ext.result.value
        IN /\ out.supplier_name = (IF got.supplier_name.t = "str" THEN got.supplier_name ELSE NoneV)
           /\ out.quote_number = (IF got.quote_number.t = "str" THEN got.quote_number ELSE NoneV)
           /\ Len(out.items) = Len(got.items)
           /\ out.quote_date.t = "str"
           /\ IF Strptime(got.quote_date.s).ok
              THEN /\ IsIsoDate(out.quote_date.s)
                   /\ Strptime(out.quote_date.s) = Strptime(got.quote_date.s)
              ELSE out.quote_date.s = Strftime(ext.today)

\* C18: with config A active and a single save() activating another config B
\* in progress, a prompt resolution finds exactly one active config and
\* returns A's prompt pair or B's, never the default pair.
C18_ResolveSeesAOrB ==
    \A p \in Procs : \A a \in DOMAIN configs :
        (/\ seen.kind = "resolve"
         /\ seen.at[p].pc \in {"loaded", "updated"}
         /\ seen.at[p].inst.is_active
         /\ seen.at[p].prevActive = {a}
         /\ seen.at[p].inst.pk # a
         /\ \A q \in Procs \ {p} : seen.at[q].pc = "idle")
            => /\ seen.nActive = 1
               /\ seen.result.raised = ""
               /\ seen.result.value \in
                      {PairOfRow(configs[a]),
                       <<seen.at[p].inst.system_prompt, seen.at[p].inst.user_prompt>>}

\* The rows of a fetched frame that carry unit u's tag, in frame order.
TaggedRows(data, u) ==
    LET Mine(r) == r.business_unit = u
    IN SelectSeq(data, Mine)

\* Rows before unit i's block in a frame built from what each unit returned.
RECURSIVE BlockOffset(_, _)
BlockOffset(returned, i) ==
    IF i = 1 THEN 0
    ELSE BlockOffset(returned, i - 1) + Len(returned[BusinessUnits[i - 1]])

\* C11: when the query against exactly one business unit's source fails,
\* fetch_historical_prices does not raise: it returns the rows of the units
\* that succeeded, each in an order its source may return, and names the
\* failed source.
C11_DegradesOnSourceFailure ==
    (pa.op = "fetch" /\ Cardinality(pa.down) = 1) =>
        /\ ~pa.fetch.raised
        /\ pa.fetch.failed_sources = pa.down
        /\ \A u \in UnitSet :
              IF u \in pa.down THEN TaggedRows(pa.fetch.data, u) = <<>>
              ELSE \E q \in QueryResults(pa.tables[u], pa.item_number,
                                         pa.now - Days(LookbackDays)) :
                       /\ Len(TaggedRows(pa.fetch.data, u)) = Len(q)
                       /\ \A i \in 1..Len(q) :
                             /\ TaggedRows(pa.fetch.data, u)[i].price = q[i].price
                             /\ TaggedRows(pa.fetch.data, u)[i].purchase_date
                                    = q[i].purchase_date

\* C12: analyze_item_prices returns has_data = false exactly when the fetch
\* found no purchase of the item within the lookback window in any unit;
\* then every statistic is None and plot_path is None.
C12_HasDataIffFetched ==
    (pa.op = "analyze" /\ ~pa.analysis.raised) =>
        /\ pa.analysis.has_data = (pa.fetch.data # <<>>)
        /\ (pa.fetch.data = <<>>) =
              (\A u \in UnitSet :
                  \A i \in 1..Len(pa.tables[u]) :
                      \/ pa.tables[u][i].item_number # pa.item_number
                      \/ pa.tables[u][i].purchase_date < pa.now - Days(LookbackDays))
        /\ ~pa.analysis.has_data =>
              /\ pa.analysis.plot_path = NoPlot
              /\ pa.analysis.statistics.min_price.t = "none"
              /\ pa.analysis.statistics.max_price.t = "none"
              /\ pa.analysis.statistics.avg_price.t = "none"
              /\ pa.analysis.statistics.price_volatility.t = "none"
              /\ pa.analysis.statistics.recent_trend.t = "none"

\* The tables held purchases of the item, every one of them older than the
\* cutoff, and the analysis reported no data.
C12_Witness ==
    /\ pa.op = "analyze" /\ ~pa.analysis.raised /\ ~pa.analysis.has_data
    /\ pa.analysis.statistics = EmptyStatistics
    /\ \E u \in UnitSet : \E i \in 1..Len(pa.tables[u]) :
          pa.tables[u][i].item_number = pa.item_number

\* C17: a fetch that returns lays the units' rows out as one block per unit
\* in the order a, b, c, each block being exactly what that unit's source
\* returned (no earlier date before a later one, every matching row once),
\* every row tagged with its own unit.
C17_BlocksInUnitOrder ==
    (pa.op = "fetch" /\ ~pa.fetch.raised) =>
        /\ Len(pa.fetch.data) = BlockOffset(pa.returned, Len(BusinessUnits) + 1)
        /\ \A k \in 1..Len(BusinessUnits) :
              LET u == BusinessUnits[k]
              IN /\ Len(pa.returned[u])
                        = Len(MatchingPurchases(pa.tables[u], pa.item_number,
                                                pa.now - Days(LookbackDays)))
                 /\ \A i \in 1..Len(pa.returned[u]) :
                       LET row == pa.fetch.data[BlockOffset(pa.returned, k) + i]
                       IN /\ row.business_unit = u
                          /\ row.price = pa.returned[u][i].price
                          /\ row.purchase_date = pa.returned[u][i].purchase_date
                 /\ \A i \in 1..(Len(pa.returned[u]) - 1) :
                       pa.returned[u][i].purchase_date >= pa.returned[u][i + 1].purchase_date

\* All three units returned rows of the item, and the same purchase came
\* back from two of them.
C17_Witness ==
    /\ pa.op = "fetch" /\ ~pa.fetch.raised
    /\ \A u \in UnitSet : pa.returned[u] # <<>>
    /\ pa.returned[BusinessUnits[1]] = pa.returned[BusinessUnits[3]]
    /\ pa.returned[BusinessUnits[1]] # pa.returned[BusinessUnits[2]]

\* C13: for a non-empty frame and a current time now, recent_trend is not
\* None exactly when some observation is dated now - 90 days or later and
\* some observation is dated from now - 180 days up to but excluding
\* now - 90 days; it is then (recent mean - prior mean) / prior mean * 100.
\* now is any one of the clock's readings during the call.
C13_RecentTrend ==
    (st.done /\ st.data # <<>>) =>
        \E now \in {st.reads[1], st.reads[2], st.reads[3]} :
            LET IsRecent(r) == r.purchase_date >= now - Days(RecentDays)
                IsPrior(r) == /\ r.purchase_date >= now - Days(PreviousDays)
                              /\ r.purchase_date < now - Days(RecentDays)
                recent == SelectSeq(st.data, IsRecent)
                prior == SelectSeq(st.data, IsPrior)
                rs == SumPrices(recent)
                ps == SumPrices(prior)
            IN /\ (st.stats.recent_trend.t # "none") = (recent # <<>> /\ prior # <<>>)
               /\ (recent # <<>> /\ prior # <<>> /\ ps # 0) =>
                     /\ st.stats.recent_trend.t = "float"
                     /\ st.stats.recent_trend.num * (ps * Len(recent))
                            = st.stats.recent_trend.den
                                * ((rs * Len(prior) - ps * Len(recent)) * 100)

\* C19: no observation is in both the recent and the previous partition of
\* calculate_price_statistics, whatever the clock does between the reads.
C19_PartitionsDisjoint ==
    st.done =>
        \A i \in 1..Len(st.data) :
            ~(/\ \E j \in 1..Len(RecentData(st.data, st.reads[1])) :
                     RecentData(st.data, st.reads[1])[j] = st.data[i]
              /\ \E j \in 1..Len(PreviousData(st.data, st.reads[2], st.reads[3])) :
                     PreviousData(st.data, st.reads[2], st.reads[3])[j] = st.data[i])

\* C14: _normalize_series returns a series of the input's length whose i-th
\* value is (v[i] - v[1]) / v[1] * 100, so its first value is 0; it returns
\* zeros when the first value is 0, and the empty series for the empty
\* series.  [100, 110, 90] gives [0, 10, -10]; [0, 5, 10] gives [0, 0, 0].
C14_NormalizedFromFirst ==
    nz.done =>
        /\ Len(nz.out) = Len(nz.series)
        /\ \A i \in 1..Len(nz.out) :
              /\ nz.out[i].den > 0
              /\ i = 1 => nz.out[i].num = 0
              /\ nz.series[1] = 0 => nz.out[i].num = 0
              /\ nz.series[1] # 0 =>
                    nz.out[i].num * nz.series[1]
                        = nz.out[i].den * ((nz.series[i] - nz.series[1]) * 100)
        /\ nz.series = <<100, 110, 90>> =>
              nz.out = <<[num |-> 0, den |-> 1], [num |-> 10, den |-> 1],
                         [num |-> 0 - 10, den |-> 1]>>
        /\ nz.series = <<0, 5, 10>> =>
              nz.out = <<[num |-> 0, den |-> 1], [num |-> 0, den |-> 1],
                         [num |-> 0, den |-> 1]>>

\* The series [100, 110, 90] was normalised: a rise and a fall from the first
\* value.
C14_Witness ==
    /\ nz.done /\ nz.series = <<100, 110, 90>>
    /\ nz.out[2].num > 0 /\ nz.out[3].num < 0

\* A date as a number that orders as the calendar does.
DateKey(date) == date.y * 10000 + date.m * 100 + date.d

\* C15: get_index_for_date returns a stored observation of the greatest
\* observation_date on or before the first day of the target date's month,
\* and None exactly when no observation is on or before that day.
C15_LatestBeforeFirstOfMonth ==
    fred.op = "get" =>
        LET bound == fred.a.y * 10000 + fred.a.m * 100 + 1
            eligible == {k \in 1..Len(fred.store) :
                            /\ fred.store[k].observation_date # NoDate
                            /\ DateKey(fred.store[k].observation_date) <= bound}
        IN IF fred.one = 0 THEN eligible = {}
           ELSE /\ fred.one \in eligible
                /\ \A j \in eligible :
                      DateKey(fred.store[j].observation_date)
                          <= DateKey(fred.store[fred.one].observation_date)

\* A lookup for 2024-02-20 returned the observation of 2024-02-01 although
\* the table also held one of 2024-02-15 and an earlier one.
C15_Witness ==
    /\ fred.op = "get" /\ fred.a = [y |-> 2024, m |-> 2, d |-> 20]
    /\ fred.one # 0
    /\ fred.store[fred.one].observation_date = [y |-> 2024, m |-> 2, d |-> 1]
    /\ \E k \in 1..Len(fred.store) :
          fred.store[k].observation_date = [y |-> 2024, m |-> 2, d |-> 15]
    /\ \E k \in 1..Len(fred.store) :
          fred.store[k].observation_date = [y |-> 2024, m |-> 1, d |-> 1]

\* C16: get_index_range_for_analysis(start_date, end_date) returns exactly
\* the observations dated from the first of start_date's month to the first
\* of end_date's month, each once, no later date before an earlier one; the
\* result is empty when no observation lies in that window.
C16_RangeBetweenFirstOfMonths ==
    (fred.op = "range" /\ fred.b # NoDate) =>
        LET lo == fred.a.y * 10000 + fred.a.m * 100 + 1
            hi == fred.b.y * 10000 + fred.b.m * 100 + 1
            window == {k \in 1..Len(fred.store) :
                          /\ fred.store[k].observation_date # NoDate
                          /\ lo <= DateKey(fred.store[k].observation_date)
                          /\ DateKey(fred.store[k].observation_date) <= hi}
        IN /\ {fred.many[i] : i \in 1..Len(fred.many)} = window
           /\ Len(fred.many) = Cardinality(window)
           /\ \A i \in 1..(Len(fred.many) - 1) :
                 DateKey(fred.store[fred.many[i]].observation_date)
                     <= DateKey(fred.store[fred.many[i + 1]].observation_date)

\* A range from 2024-01-01 to 2024-02-10 returned the observations of
\* January 1st and February 1st and left out the one of February 15th.
C16_Witness ==
    /\ fred.op = "range"
    /\ fred.a = [y |-> 2024, m |-> 1, d |-> 1] /\ fred.b = [y |-> 2024, m |-> 2, d |-> 10]
    /\ Len(fred.many) = 2
    /\ fred.store[fred.many[1]].observation_date = [y |-> 2024, m |-> 1, d |-> 1]
    /\ fred.store[fred.many[2]].observation_date = [y |-> 2024, m |-> 2, d |-> 1]
    /\ \E k \in 1..Len(fred.store) :
          fred.store[k].observation_date = [y |-> 2024, m |-> 2, d |-> 15]

\* C20: a request that ends on the error path leaves no Quote it created in
\* the quotes table.
C20_FailedUploadLeavesNoQuote ==
    \A c \in Clients :
        up.reqs[c].outcome = "error" => up.reqs[c].quote \notin DOMAIN up.quotes
====
